---- MODULE Spec2Model ----
(***************************************************************************)
(* A model of the content-addressable store of cas.go: the key codec       *)
(* (HashToKey, keyToString), store open with its schema guard (NewStore),  *)
(* the import pipeline (WriteACI) with its three commit steps, prefix      *)
(* resolution (ResolveKey) and the raw read/write operations.              *)
(*                                                                         *)
(* Strings whose characters matter (keys) are sequences of one-character   *)
(* strings; byte streams are sequences of integers in 0..255.              *)
(***************************************************************************)
EXTENDS Integers, Sequences, FiniteSets, TLC

(***************************************************************************)
(* Bounds of the model.                                                    *)
(***************************************************************************)
\* the number of ImageInfo rows (that is, of completed imports) explored
MaxRows == 2

\* the number of Remotes written explored
MaxRemotes == 3

\* the callers that use the store concurrently
Procs == {"p1", "p2"}

(***************************************************************************)
(* Constants of cas.go.                                                    *)
(***************************************************************************)
hashPrefix == <<"s", "h", "a", "5", "1", "2", "-">>

lenHash == 64

lenHashKey == (lenHash \div 2) * 2

lenKey == Len(hashPrefix) + lenHashKey

\* the size of the header peek of WriteACI
PeekSize == 512

\* the schema version the code expects
dbVersion == 1

(***************************************************************************)
(* Sequences.                                                              *)
(***************************************************************************)
Min(a, b) == IF a < b THEN a ELSE b

IsPrefix(s, t) == Len(s) <= Len(t) /\ SubSeq(t, 1, Len(s)) = s

\* the store of one diskv namespace: a function from the stored keys
EmptyStore == [k \in {} |-> <<>>]

Put(s, key, val) == [k \in DOMAIN s \cup {key} |-> IF k = key THEN val ELSE s[k]]

(***************************************************************************)
(* Archives.  A canonical image is a byte sequence whose first byte        *)
(* selects the application the manifest inside names (0: the image holds   *)
(* no manifest).  An image of a full tar header block carries the tar      *)
(* magic at offset 257, so that it is recognised without a wrapper.        *)
(***************************************************************************)
tarMagic == <<117, 115, 116, 97, 114>>

gzipHeader == <<31, 139>>

bzip2Header == <<66, 90, 104>>

xzHeader == <<253, 55, 122, 88, 90, 0>>

TarImage(app, fill, size) ==
    [i \in 1..size |->
        IF i = 1 THEN app
        ELSE IF i \in 258..262 THEN tarMagic[i - 257]
        ELSE (fill * i) % 256]

\* the compression wrappers: a header followed by the transformed payload
Gzip(b) == gzipHeader \o [i \in 1..Len(b) |-> (b[i] + 1) % 256]

Bzip2(b) == bzip2Header \o [i \in 1..Len(b) |-> (b[i] + 2) % 256]

\* the canonical images imported: two applications, and one without manifest
B1 == TarImage(1, 7, 3)

B2 == TarImage(2, 9, 3)

B0 == TarImage(0, 3, 3)

Garbage == <<1, 2, 3>>

\* the input streams handed to WriteACI
Streams == {Gzip(B1), Bzip2(B1), Gzip(B2), Bzip2(B0), Garbage}

\* bufio.NewReaderSize(r, size): nothing is buffered, all of r is still to read
NewReaderSize(r, size) == [buf |-> <<>>, rd |-> r, size |-> size]

\* the header taken with Read instead of Peek: the bytes returned have left
\* the reader
BufPeekConsuming(br, n) ==
    LET take == Min(n, Len(br.rd))
    IN  [hd |-> SubSeq(br.rd, 1, take),
         err |-> IF take < n THEN "EOF" ELSE "",
         br |-> [br EXCEPT !.rd = SubSeq(br.rd, take + 1, Len(br.rd))]]

\* br.Peek(n): the buffer is filled from the underlying reader up to n bytes,
\* which are returned and stay in the buffer; io.EOF when fewer are there
BufPeek(br, n) ==
    LET take == Min(Min(n, br.size) - Len(br.buf), Len(br.rd))
        buf == br.buf \o SubSeq(br.rd, 1, take)
    IN  [hd |-> SubSeq(buf, 1, Min(n, Len(buf))),
         err |-> IF Len(buf) < n THEN "EOF" ELSE "",
         br |-> [br EXCEPT !.buf = buf, !.rd = SubSeq(br.rd, take + 1, Len(br.rd))]]

\* all that a reader of br reads up to its end: what is buffered, then the rest
ReadAll(br) == br.buf \o br.rd

\* br.Peek(512): the first min(512, length) bytes; the stream stays whole
Peek(stream) == BufPeek(NewReaderSize(stream, PeekSize), PeekSize).hd

\* aci.DetectFileType on the peeked header
DetectFileType(hd) ==
    IF IsPrefix(gzipHeader, hd) THEN "gzip"
    ELSE IF IsPrefix(bzip2Header, hd) THEN "bzip2"
    ELSE IF IsPrefix(xzHeader, hd) THEN "xz"
    ELSE IF Len(hd) > 262 - 1 /\ SubSeq(hd, 258, 262) = tarMagic THEN "tar"
    ELSE "unknown"

\* decompress(br, typ): the reader of the canonical bytes of the stream
decompress(stream, typ) ==
    CASE typ = "gzip" ->
            [ok |-> TRUE,
             bytes |-> [i \in 1..(Len(stream) - Len(gzipHeader)) |->
                          (stream[i + Len(gzipHeader)] + 255) % 256]]
      [] typ = "bzip2" ->
            [ok |-> TRUE,
             bytes |-> [i \in 1..(Len(stream) - Len(bzip2Header)) |->
                          (stream[i + Len(bzip2Header)] + 254) % 256]]
      [] typ = "tar" -> [ok |-> TRUE, bytes |-> stream]
      [] OTHER -> [ok |-> FALSE, bytes |-> <<>>]

\* WriteACI from its entry to the decompressing reader: the header peeked,
\* whether the peek met the end of the stream, the type detected, the bytes
\* the decompressing reader is given, that reader, and the error returned;
\* fail names the stage whose I/O fails, "none" when none does
WriteACIHeaderOn(stream, fail) ==
    LET pk == BufPeek(NewReaderSize(stream, PeekSize), PeekSize)
        err == IF fail = "peek" THEN "read error" ELSE pk.err
        typ == DetectFileType(pk.hd)
        received == ReadAll(pk.br)
        dr == decompress(received, typ)
    IN  [hd |-> pk.hd, eof |-> pk.err = "EOF", typ |-> typ, received |-> received,
         dr |-> dr, fail |-> fail,
         err |-> IF err \notin {"", "EOF"} THEN "error reading image header"
                 ELSE IF fail = "detect" THEN "error detecting image type"
                 ELSE IF ~dr.ok \/ fail = "decompress" THEN "error decompressing image"
                 ELSE ""]

\* the canonical bytes of a stream, as WriteACI derives them
Canonical(stream) == WriteACIHeaderOn(stream, "none").dr

(***************************************************************************)
(* Manifests.                                                              *)
(***************************************************************************)
AppNames == <<"example-app", "other-app">>

NoManifest == [acKind |-> "", name |-> ""]

\* aci.ManifestFromImage on the temporary file
ManifestFromImage(bytes) ==
    IF Len(bytes) >= 1 /\ bytes[1] \in 1..Len(AppNames)
    THEN [ok |-> TRUE, im |-> [acKind |-> "ImageManifest", name |-> AppNames[bytes[1]]]]
    ELSE [ok |-> FALSE, im |-> NoManifest]

\* json.Marshal(im)
Marshal(im) == <<"{", "acKind", ":", im.acKind, ",", "name", ":", im.name, "}">>

\* json.Unmarshal(imj, &im)
Unmarshal(imj) ==
    IF /\ Len(imj) = 9
       /\ imj[1] = "{" /\ imj[2] = "acKind" /\ imj[3] = ":" /\ imj[5] = ","
       /\ imj[6] = "name" /\ imj[7] = ":" /\ imj[9] = "}"
    THEN [ok |-> TRUE, im |-> [acKind |-> imj[4], name |-> imj[8]]]
    ELSE [ok |-> FALSE, im |-> NoManifest]

(***************************************************************************)
(* Key codec.                                                              *)
(***************************************************************************)
\* the running state of a digest over b[lo..hi] (a positional checksum)
RECURSIVE Fold(_, _, _)
Fold(b, lo, hi) ==
    IF lo > hi THEN 0
    ELSE IF lo = hi THEN (lo * (b[lo] + 1)) % 65521
    ELSE LET mid == (lo + hi) \div 2
         IN  (Fold(b, lo, mid) + Fold(b, mid + 1, hi)) % 65521

\* the digest sizes of the hash.Hash implementations, in bytes
HashSize == [sha1 |-> 20, sha256 |-> 32, sha512 |-> lenHash]

\* h.Sum(nil) of a hash of algorithm alg that was fed data
Sum(alg, data) ==
    LET f == Fold(data, 1, Len(data)) + HashSize[alg]
    IN  [i \in 1..HashSize[alg] |-> ((f \div 256) * i + f + i * i) % 256]

HexDigits == <<"0", "1", "2", "3", "4", "5", "6", "7",
               "8", "9", "a", "b", "c", "d", "e", "f">>

\* fmt.Sprintf("%x", k)
Hex(k) ==
    [i \in 1..(2 * Len(k)) |->
        IF i % 2 = 1 THEN HexDigits[(k[(i + 1) \div 2] \div 16) + 1]
        ELSE HexDigits[(k[i \div 2] % 16) + 1]]

\* keyToString cutting the string to lenHashKey, the tag not counted in
keyToStringShort(k) ==
    IF Len(k) # lenHash
    THEN [panic |-> TRUE, key |-> <<>>]
    ELSE [panic |-> FALSE, key |-> SubSeq(hashPrefix \o Hex(k), 1, lenHashKey)]

\* keyToString without the check of the size of the digest
keyToStringUnchecked(k) ==
    [panic |-> FALSE, key |-> SubSeq(hashPrefix \o Hex(k), 1, Min(lenKey, 7 + 2 * Len(k)))]

\* keyToString: the key, or a panic on a digest of the wrong size
keyToString(k) ==
    IF Len(k) # lenHash
    THEN [panic |-> TRUE, key |-> <<>>]
    ELSE [panic |-> FALSE, key |-> SubSeq(hashPrefix \o Hex(k), 1, lenKey)]

HashToKey(alg, data) == keyToString(Sum(alg, data))

K1 == HashToKey("sha512", B1).key

K2 == HashToKey("sha512", B2).key

K0 == HashToKey("sha512", B0).key

(***************************************************************************)
(* The inputs of the operations.                                           *)
(***************************************************************************)
\* a key one character longer than a full key (WriteStream takes any key)
LongKey == K1 \o <<"0">>

\* the keys and the data of the raw writes
RawKeys == {K1, LongKey}

RawData == {B2}

\* the keys read back
ReadKeys == {K1, K2}

\* the partial keys resolved: the bare tag, a short prefix, a full key, a
\* full key followed by more characters, and a prefix of no stored key
PartialKeys == {hashPrefix, SubSeq(K1, 1, 12), K1, LongKey,
                K1 \o <<"z", "z">>, SubSeq(K0, 1, 12)}

\* the hashes handed to HashToKey
Hashes == {[alg |-> "sha1", data |-> B1], [alg |-> "sha256", data |-> B1],
           [alg |-> "sha512", data |-> B2]}

URLs == {"http://example.com/app.aci", "http://example.com/db.aci"}

(***************************************************************************)
(* The metadata index (db.go, schema.go, aciinfo.go, remote.go).           *)
(***************************************************************************)
\* an index file that was never populated
EmptyDB == [populated |-> FALSE, version |-> 0, aciinfo |-> <<>>,
            remote |-> [u \in {} |-> <<>>]]

\* the index after dbCreateStmts: the tables, and the version row
CreatedDB == [EmptyDB EXCEPT !.populated = TRUE, !.version = dbVersion]

\* an index populated by the code of schema version v
PopulatedDB(v) == [EmptyDB EXCEPT !.populated = TRUE, !.version = v]

dbIsPopulated(d) == d.populated

getDBVersion(d) == d.version

\* db.Do(fn): tx holds the outcome of fn, [err, db]; commit on success,
\* roll back on an error of fn or of the commit
Do(d, tx, commitOk) ==
    IF tx.err # "" THEN [err |-> tx.err, db |-> d]
    ELSE IF ~commitOk THEN [err |-> "commit failed", db |-> d]
    ELSE [err |-> "", db |-> tx.db]

\* WriteACIInfo(tx, aciinfo): one row
WriteACIInfo(d, aciinfo) == [d EXCEPT !.aciinfo = Append(@, aciinfo)]

\* time.Now() at the write of a row: the rows written so far order the clock
Now(d) == Len(d.aciinfo) + 1

RowKeys(d) == {d.aciinfo[i].BlobKey : i \in 1..Len(d.aciinfo)}

(***************************************************************************)
(* State.                                                                  *)
(***************************************************************************)
VARIABLES
    store,     \* store[p]: "open" when caller p holds a Store, else "none"
    pc,        \* pc[p]: the position of p: "idle", or the commit step of
               \* WriteACI it is about to take: "import", "manifest", "index"
    call,      \* call[p]: the locals of the WriteACI call p is in
    blob,      \* the blob namespace: key -> bytes
    manifest,  \* the imageManifest namespace: key -> serialized manifest
    db,        \* the metadata index
    ret,       \* what the last step returned to its caller, if it returned
    imports,   \* the successful imports so far, in order: [arg, key]
    remotes    \* the Remotes written so far, in order

vars == <<store, pc, call, blob, manifest, db, ret, imports, remotes>>

NoCall == [arg |-> <<>>, key |-> <<>>, fh |-> <<>>, im |-> NoManifest]

NoRet == [op |-> "none", arg |-> <<>>, val |-> <<>>, err |-> "", errArg |-> <<>>]

Return(op, arg, val) ==
    [op |-> op, arg |-> arg, val |-> val, err |-> "", errArg |-> <<>>]

Fail(op, arg, err, errArg) ==
    [op |-> op, arg |-> arg, val |-> <<>>, err |-> err, errArg |-> errArg]

Init ==
    /\ store = [p \in Procs |-> "none"]
    /\ pc = [p \in Procs |-> "idle"]
    /\ call = [p \in Procs |-> NoCall]
    /\ blob = EmptyStore
    /\ manifest = EmptyStore
    /\ db \in {EmptyDB} \cup {PopulatedDB(v) : v \in (dbVersion - 1)..(dbVersion + 1)}
    /\ ret = NoRet
    /\ imports = <<>>
    /\ remotes = <<>>

(***************************************************************************)
(* NewStore.                                                               *)
(***************************************************************************)
\* NewStoreFn without the check for a version greater than expected
NewStoreFnNoGreater(d, fail) ==
    IF fail = "dbIsPopulated" THEN [err |-> "index error", db |-> d]
    ELSE IF ~dbIsPopulated(d) /\ fail = "exec" THEN [err |-> "index error", db |-> d]
    ELSE LET d1 == IF dbIsPopulated(d) THEN d ELSE CreatedDB
             version == getDBVersion(d1)
         IN  IF fail = "getDBVersion" THEN [err |-> "index error", db |-> d1]
             ELSE IF version < dbVersion
             THEN [err |-> "db version lesser than expected", db |-> d1]
             ELSE [err |-> "", db |-> d1]

\* NewStoreFn running the creation statements whether or not the index is
\* populated
NewStoreFnAlwaysCreate(d, fail) ==
    IF fail = "dbIsPopulated" THEN [err |-> "index error", db |-> d]
    ELSE IF fail = "exec" THEN [err |-> "index error", db |-> d]
    ELSE LET d1 == CreatedDB
             version == getDBVersion(d1)
         IN  IF fail = "getDBVersion" THEN [err |-> "index error", db |-> d1]
             ELSE IF version < dbVersion
             THEN [err |-> "db version lesser than expected", db |-> d1]
             ELSE IF version > dbVersion
             THEN [err |-> "db version greater than expected", db |-> d1]
             ELSE [err |-> "", db |-> d1]

\* the function NewStore runs in one transaction; fail names the statement
\* of the transaction the index fails at, "none" when it fails at none
NewStoreFn(d, fail) ==
    IF fail = "dbIsPopulated" THEN [err |-> "index error", db |-> d]
    ELSE IF ~dbIsPopulated(d) /\ fail = "exec" THEN [err |-> "index error", db |-> d]
    ELSE LET d1 == IF dbIsPopulated(d) THEN d ELSE CreatedDB
             version == getDBVersion(d1)
         IN  IF fail = "getDBVersion" THEN [err |-> "index error", db |-> d1]
             ELSE IF version < dbVersion
             THEN [err |-> "db version lesser than expected", db |-> d1]
             ELSE IF version > dbVersion
             THEN [err |-> "db version greater than expected", db |-> d1]
             ELSE [err |-> "", db |-> d1]

NewStore(p) ==
    /\ pc[p] = "idle"
    /\ \E fail \in {"none", "NewDB", "dbIsPopulated", "exec", "getDBVersion", "commit"} :
          IF fail = "NewDB"
          THEN /\ ret' = Fail("NewStore", <<>>, "index error", <<>>)
               /\ UNCHANGED <<store, db>>
          ELSE LET r == Do(db, NewStoreFn(db, fail), fail # "commit")
               IN  /\ db' = r.db
                   /\ IF r.err = ""
                      THEN /\ store' = [store EXCEPT ![p] = "open"]
                           /\ ret' = Return("NewStore", <<>>, <<>>)
                      ELSE /\ store' = store
                           /\ ret' = Fail("NewStore", <<>>, r.err, <<>>)
    /\ UNCHANGED <<pc, call, blob, manifest, imports, remotes>>

(***************************************************************************)
(* ResolveKey.                                                             *)
(***************************************************************************)
\* the keys of a namespace that start with prefix
KeysPrefix(s, prefix) == {k \in DOMAIN s : IsPrefix(prefix, k)}

\* the orders in which the scan may send a set of keys down its channel
Orders(S) ==
    {o \in [1..Cardinality(S) -> S] : \A i, j \in 1..Cardinality(S) : o[i] = o[j] => i = j}

\* the loop of ResolveKey without its break: it goes on receiving after it
\* has closed cancel, and closes it again
RECURSIVE ScanLoopNoBreak(_, _, _)
ScanLoopNoBreak(ch, k, keyCount) ==
    IF ch = <<>> THEN [k |-> k, keyCount |-> keyCount, cancel |-> FALSE, closes |-> 0]
    ELSE LET l == ScanLoopNoBreak(Tail(ch), Head(ch), keyCount + 1)
         IN  IF keyCount + 1 > 1
             THEN [l EXCEPT !.cancel = TRUE, !.closes = @ + 1]
             ELSE l

\* the loop of ResolveKey over the keys ch still to be received: the last key
\* received, their number, whether cancel is closed and how often
RECURSIVE ScanLoop(_, _, _)
ScanLoop(ch, k, keyCount) ==
    IF ch = <<>> THEN [k |-> k, keyCount |-> keyCount, cancel |-> FALSE, closes |-> 0]
    ELSE IF keyCount + 1 > 1
         THEN [k |-> Head(ch), keyCount |-> keyCount + 1, cancel |-> TRUE, closes |-> 1]
         ELSE ScanLoop(Tail(ch), Head(ch), keyCount + 1)

\* ResolveKey scanning for its argument as passed
TruncateNot(key) == key

\* the key ResolveKey scans for: its argument, cut to the length of a key
Truncate(key) == IF Len(key) > lenKey THEN SubSeq(key, 1, lenKey) ELSE key

\* ResolveKey returning the last key received, however many were
ResolveKeyOnAny(arg, key, ch) ==
    LET l == ScanLoop(ch, <<>>, 0)
    IN  IF l.keyCount = 0 THEN Fail("ResolveKey", arg, "no keys found", <<>>)
        ELSE Return("ResolveKey", arg, l.k)

\* ResolveKey(arg) when the scan sends the matching keys in the order ch
ResolveKeyOn(arg, key, ch) ==
    LET l == ScanLoop(ch, <<>>, 0)
    IN  IF l.keyCount = 0 THEN Fail("ResolveKey", arg, "no keys found", <<>>)
        ELSE IF l.keyCount # 1 THEN Fail("ResolveKey", arg, "ambiguous key", key)
        ELSE Return("ResolveKey", arg, l.k)

\* every outcome ResolveKey(arg) can have on the blob namespace s
ResolveKeyOutcomes(s, arg) ==
    LET key == Truncate(arg)
    IN  {ResolveKeyOn(arg, key, ch) : ch \in Orders(KeysPrefix(s, key))}

ResolveKey(p) ==
    /\ pc[p] = "idle"
    /\ store[p] = "open"
    /\ \E arg \in PartialKeys : ret' \in ResolveKeyOutcomes(blob, arg)
    /\ UNCHANGED <<store, pc, call, blob, manifest, db, imports, remotes>>

(***************************************************************************)
(* ReadStream, WriteStream, GetImageManifest.                              *)
(***************************************************************************)
\* ds.stores[blobType].ReadStream(key, false) on the blob namespace s
ReadStreamOn(s, key) ==
    IF key \in DOMAIN s
    THEN Return("ReadStream", key, s[key])
    ELSE Fail("ReadStream", key, "not found", <<>>)

ReadStream(p) ==
    /\ pc[p] = "idle"
    /\ store[p] = "open"
    /\ \E key \in ReadKeys : ret' = ReadStreamOn(blob, key)
    /\ UNCHANGED <<store, pc, call, blob, manifest, db, imports, remotes>>

WriteStream(p) ==
    /\ pc[p] = "idle"
    /\ store[p] = "open"
    /\ \E key \in RawKeys, r \in RawData, ok \in BOOLEAN :
          IF ok
          THEN /\ blob' = Put(blob, key, r)
               /\ ret' = Return("WriteStream", key, r)
          ELSE /\ blob' = blob
               /\ ret' = Fail("WriteStream", key, "write failed", <<>>)
    /\ UNCHANGED <<store, pc, call, manifest, db, imports, remotes>>

\* GetImageManifest(key) on the imageManifest namespace s
GetImageManifestOn(s, key) ==
    IF key \notin DOMAIN s
    THEN Fail("GetImageManifest", key, "error retrieving image manifest", <<>>)
    ELSE LET u == Unmarshal(s[key])
         IN  IF ~u.ok
             THEN Fail("GetImageManifest", key, "error unmarshalling image manifest", <<>>)
             ELSE Return("GetImageManifest", key, u.im)

GetImageManifest(p) ==
    /\ pc[p] = "idle"
    /\ store[p] = "open"
    /\ \E key \in ReadKeys : ret' = GetImageManifestOn(manifest, key)
    /\ UNCHANGED <<store, pc, call, blob, manifest, db, imports, remotes>>

(***************************************************************************)
(* HashToKey, called on a hash of any algorithm.                           *)
(***************************************************************************)
HashToKeyCall(p) ==
    /\ pc[p] = "idle"
    /\ \E h \in Hashes :
          LET k == HashToKey(h.alg, h.data)
          IN  ret' = IF k.panic
                     THEN Fail("HashToKey", h, "panic: bad hash passed to hashToKey", <<>>)
                     ELSE Return("HashToKey", h, k.key)
    /\ UNCHANGED <<store, pc, call, blob, manifest, db, imports, remotes>>

(***************************************************************************)
(* GetRemote, WriteRemote.                                                 *)
(***************************************************************************)
GetRemote(p) ==
    /\ pc[p] = "idle"
    /\ store[p] = "open"
    /\ \E aciURL \in URLs, ok \in BOOLEAN :
          ret' = IF ~ok THEN Fail("GetRemote", aciURL, "index error", <<>>)
                 ELSE IF aciURL \in DOMAIN db.remote
                 THEN Return("GetRemote", aciURL, [found |-> TRUE, remote |-> db.remote[aciURL]])
                 ELSE Return("GetRemote", aciURL, [found |-> FALSE, remote |-> <<>>])
    /\ UNCHANGED <<store, pc, call, blob, manifest, db, imports, remotes>>

\* WriteRemote(tx, remote): the row of the URL of remote is replaced by
\* remote; fail names the statement that fails, "none" when none does
WriteRemoteTx(d, remote, fail) ==
    LET deleted == [d EXCEPT !.remote =
                       [u \in (DOMAIN d.remote) \ {remote.ACIURL} |-> d.remote[u]]]
    IN  IF fail = "delete" THEN [err |-> "index error", db |-> d]
        ELSE IF fail = "insert" THEN [err |-> "index error", db |-> deleted]
        ELSE [err |-> "", db |-> [d EXCEPT !.remote = Put(@, remote.ACIURL, remote)]]

\* WriteRemote whose statements run outside a transaction: nothing is rolled
\* back when one fails
WriteRemoteNoTx(p) ==
    /\ pc[p] = "idle"
    /\ store[p] = "open"
    /\ Len(remotes) < MaxRemotes
    /\ \E aciURL \in URLs, key \in ReadKeys, fail \in {"none", "delete", "insert", "commit"} :
          LET remote == [ACIURL |-> aciURL, BlobKey |-> key]
              tx == WriteRemoteTx(db, remote, fail)
          IN  /\ db' = tx.db
              /\ IF tx.err = ""
                 THEN /\ ret' = Return("WriteRemote", remote, <<>>)
                      /\ remotes' = Append(remotes, remote)
                 ELSE /\ ret' = Fail("WriteRemote", remote, tx.err, <<>>)
                      /\ remotes' = remotes
    /\ UNCHANGED <<store, pc, call, blob, manifest, imports>>

WriteRemote(p) ==
    /\ pc[p] = "idle"
    /\ store[p] = "open"
    /\ Len(remotes) < MaxRemotes
    /\ \E aciURL \in URLs, key \in ReadKeys, fail \in {"none", "delete", "insert", "commit"} :
          LET remote == [ACIURL |-> aciURL, BlobKey |-> key]
              r == Do(db, WriteRemoteTx(db, remote, fail), fail # "commit")
          IN  /\ db' = r.db
              /\ IF r.err = ""
                 THEN /\ ret' = Return("WriteRemote", remote, <<>>)
                      /\ remotes' = Append(remotes, remote)
                 ELSE /\ ret' = Fail("WriteRemote", remote, r.err, <<>>)
                      /\ remotes' = remotes
    /\ UNCHANGED <<store, pc, call, blob, manifest, imports>>

(***************************************************************************)
(* WriteACI.                                                               *)
(***************************************************************************)
\* the digest fed from the input as it arrives, not from what dr yields
TeeReaderRaw(stream, dr) == [read |-> dr.bytes, hashed |-> stream]

\* tr := io.TeeReader(dr, h) on the decompressing reader dr of the stream:
\* what a reader of tr reads, and what the digest h is fed meanwhile
TeeReader(stream, dr) == [read |-> dr.bytes, hashed |-> dr.bytes]

\* WriteACI up to the computation of the key: the error it returns, or the
\* key, the content of the temporary file and the manifest.  fail names the
\* stage whose I/O fails, "none" when none does.
WriteACIPrepare(stream, fail) ==
    LET h == WriteACIHeaderOn(stream, fail)
        dr == h.dr
        tr == TeeReader(stream, dr)
        fh == tr.read
        m == ManifestFromImage(fh)
        k == HashToKey("sha512", tr.hashed)
        Err(e) == [err |-> e, key |-> <<>>, fh |-> <<>>, im |-> NoManifest]
    IN  IF h.err # "" THEN Err(h.err)
        ELSE IF fail = "tmpFile" THEN Err("error creating image")
        ELSE IF fail = "copy" THEN Err("error copying image")
        ELSE IF ~m.ok \/ fail = "manifest" THEN Err("error extracting image manifest")
        ELSE IF fail = "close" THEN Err("error closing image")
        ELSE IF k.panic THEN Err("panic: bad hash passed to hashToKey")
        ELSE [err |-> "", key |-> k.key, fh |-> fh, im |-> m.im]

\* the lengths of the streams whose header is peeked: none, shorter than the
\* peek, around the tar magic, the size of the peek, and longer
HeaderLens == {0, 1, 2, 3, 4, 261, 262, 263, 511, 512, 513, 600}

\* streams of every such length: gzip, bzip2, tar and unrecognised content
HeaderStreams ==
    UNION {{SubSeq(Gzip(TarImage(1, 7, n)), 1, n),
            SubSeq(Bzip2(TarImage(2, 9, n)), 1, n),
            TarImage(1, 11, n),
            [i \in 1..n |-> (5 * i) % 256]} : n \in HeaderLens}

\* the stages of WriteACI up to the decompressing reader whose I/O can fail
HeaderFails == {"none", "peek", "detect", "decompress"}

\* WriteACIHeaderOn on every such stream, computed once
HeaderOutcomes ==
    [stream \in HeaderStreams |-> [fail \in HeaderFails |-> WriteACIHeaderOn(stream, fail)]]

\* WriteACI from its entry to the decompressing reader, on a stream of any length
WriteACIHeader(p) ==
    /\ pc[p] = "idle"
    /\ \E stream \in HeaderStreams, fail \in HeaderFails :
          ret' = Return("WriteACIHeader", stream, HeaderOutcomes[stream][fail])
    /\ UNCHANGED <<store, pc, call, blob, manifest, db, imports, remotes>>

\* the stages of WriteACI before the commit whose I/O can fail
PrepareFails == {"none", "peek", "detect", "decompress", "tmpFile",
                 "copy", "manifest", "close"}

\* WriteACIPrepare on every input, computed once
Prepared == [stream \in Streams |-> [fail \in PrepareFails |-> WriteACIPrepare(stream, fail)]]

\* the calls of WriteACI that are at a commit step
InFlight == {q \in Procs : pc[q] # "idle"}

\* WriteACI importing the temporary file under its key as soon as it is
\* copied, before the manifest is extracted and the file is closed
WriteACIImportFirst(p) ==
    /\ pc[p] = "idle"
    /\ store[p] = "open"
    /\ Len(db.aciinfo) + Cardinality(InFlight) < MaxRows
    /\ \E stream \in Streams, fail \in PrepareFails :
          LET w == Prepared[stream][fail]
              copied == Prepared[stream]["copy"].err = "error copying image"
              late == w.err \in {"error extracting image manifest", "error closing image"}
          IN  /\ blob' = IF copied /\ late
                         THEN Put(blob, HashToKey("sha512", Canonical(stream).bytes).key,
                                  Canonical(stream).bytes)
                         ELSE blob
              /\ IF w.err # ""
                 THEN /\ ret' = Fail("WriteACI", stream, w.err, <<>>)
                      /\ UNCHANGED <<pc, call>>
                 ELSE /\ pc' = [pc EXCEPT ![p] = "import"]
                      /\ call' = [call EXCEPT ![p] =
                                     [arg |-> stream, key |-> w.key, fh |-> w.fh, im |-> w.im]]
                      /\ ret' = NoRet
    /\ UNCHANGED <<store, manifest, db, imports, remotes>>

\* WriteACI from its entry to the key; the commit steps follow
WriteACI(p) ==
    /\ pc[p] = "idle"
    /\ store[p] = "open"
    /\ Len(db.aciinfo) + Cardinality(InFlight) < MaxRows
    /\ \E stream \in Streams, fail \in PrepareFails :
          LET w == Prepared[stream][fail]
          IN  IF w.err # ""
              THEN /\ ret' = Fail("WriteACI", stream, w.err, <<>>)
                   /\ UNCHANGED <<pc, call>>
              ELSE /\ pc' = [pc EXCEPT ![p] = "import"]
                   /\ call' = [call EXCEPT ![p] =
                                  [arg |-> stream, key |-> w.key, fh |-> w.fh, im |-> w.im]]
                   /\ ret' = NoRet
    /\ UNCHANGED <<store, blob, manifest, db, imports, remotes>>

\* the return of an error from a commit step
Abort(p, err) ==
    /\ pc' = [pc EXCEPT ![p] = "idle"]
    /\ call' = [call EXCEPT ![p] = NoCall]
    /\ ret' = Fail("WriteACI", call[p].arg, err, <<>>)

\* ImportBlob with the error of Import ignored: the import goes on
ImportBlobUnchecked(p) ==
    /\ pc[p] = "import"
    /\ \E ok \in BOOLEAN :
          /\ blob' = IF ok THEN Put(blob, call[p].key, call[p].fh) ELSE blob
          /\ pc' = [pc EXCEPT ![p] = "manifest"]
          /\ ret' = NoRet
          /\ call' = call
    /\ UNCHANGED <<store, manifest, db, imports, remotes>>

\* ImportBlob moving the temporary file before its content is flushed
ImportBlobUnflushed(p) ==
    /\ pc[p] = "import"
    /\ blob' = Put(blob, call[p].key, <<>>)
    /\ pc' = [pc EXCEPT ![p] = "manifest"]
    /\ ret' = NoRet
    /\ call' = call
    /\ UNCHANGED <<store, manifest, db, imports, remotes>>

\* ImportBlob when tmpFile hands the same temporary file to every caller: the
\* file another import has in use is moved with its last byte not yet written
ImportBlobSharedTmp(p) ==
    /\ pc[p] = "import"
    /\ blob' = IF InFlight \ {p} = {} THEN Put(blob, call[p].key, call[p].fh)
               ELSE Put(blob, call[p].key, SubSeq(call[p].fh, 1, Len(call[p].fh) - 1))
    /\ pc' = [pc EXCEPT ![p] = "manifest"]
    /\ ret' = NoRet
    /\ call' = call
    /\ UNCHANGED <<store, manifest, db, imports, remotes>>

\* ImportBlob leaving a blob already stored under the key in place
ImportBlobNoOverwrite(p) ==
    /\ pc[p] = "import"
    /\ blob' = IF call[p].key \in DOMAIN blob THEN blob
               ELSE Put(blob, call[p].key, call[p].fh)
    /\ pc' = [pc EXCEPT ![p] = "manifest"]
    /\ ret' = NoRet
    /\ call' = call
    /\ UNCHANGED <<store, manifest, db, imports, remotes>>

\* ds.stores[blobType].Import(fh.Name(), key, true)
ImportBlob(p) ==
    /\ pc[p] = "import"
    /\ \E ok \in BOOLEAN :
          IF ok
          THEN /\ blob' = Put(blob, call[p].key, call[p].fh)
               /\ pc' = [pc EXCEPT ![p] = "manifest"]
               /\ ret' = NoRet
               /\ call' = call
          ELSE /\ blob' = blob
               /\ Abort(p, "error importing image")
    /\ UNCHANGED <<store, manifest, db, imports, remotes>>

\* WriteManifest erasing the blob of the call when the manifest is not written
WriteManifestRollback(p) ==
    /\ pc[p] = "manifest"
    /\ \E fail \in {"none", "marshal", "write"} :
          IF fail # "none"
          THEN /\ manifest' = manifest
               /\ blob' = [k \in (DOMAIN blob) \ {call[p].key} |-> blob[k]]
               /\ Abort(p, IF fail = "marshal" THEN "error marshalling image manifest"
                           ELSE "error importing image manifest")
          ELSE /\ manifest' = Put(manifest, call[p].key, Marshal(call[p].im))
               /\ blob' = blob
               /\ pc' = [pc EXCEPT ![p] = "index"]
               /\ ret' = NoRet
               /\ call' = call
    /\ UNCHANGED <<store, db, imports, remotes>>

\* json.Marshal(im) and ds.stores[imageManifestType].Write(key, imj)
WriteManifest(p) ==
    /\ pc[p] = "manifest"
    /\ \E fail \in {"none", "marshal", "write"} :
          IF fail = "marshal"
          THEN /\ manifest' = manifest
               /\ Abort(p, "error marshalling image manifest")
          ELSE IF fail = "write"
          THEN /\ manifest' = manifest
               /\ Abort(p, "error importing image manifest")
          ELSE /\ manifest' = Put(manifest, call[p].key, Marshal(call[p].im))
               /\ pc' = [pc EXCEPT ![p] = "index"]
               /\ ret' = NoRet
               /\ call' = call
    /\ UNCHANGED <<store, blob, db, imports, remotes>>

\* WriteInfo running WriteACIInfo outside a transaction: the row stays when
\* the commit fails
WriteInfoNoTx(p) ==
    /\ pc[p] = "index"
    /\ \E fail \in {"none", "WriteACIInfo", "commit"} :
          LET aciinfo == [BlobKey |-> call[p].key,
                          AppName |-> call[p].im.name,
                          ImportTime |-> Now(db)]
              tx == IF fail = "WriteACIInfo"
                    THEN [err |-> "index error", db |-> db]
                    ELSE [err |-> "", db |-> WriteACIInfo(db, aciinfo)]
          IN  /\ db' = tx.db
              /\ IF fail # "none"
                 THEN /\ Abort(p, "error writing ACI Info")
                      /\ imports' = imports
                 ELSE /\ pc' = [pc EXCEPT ![p] = "idle"]
                      /\ call' = [call EXCEPT ![p] = NoCall]
                      /\ ret' = Return("WriteACI", call[p].arg, call[p].key)
                      /\ imports' = Append(imports, [arg |-> call[p].arg, key |-> call[p].key])
    /\ UNCHANGED <<store, blob, manifest, remotes>>

\* ds.db.Do(WriteACIInfo) and the return of the key
WriteInfo(p) ==
    /\ pc[p] = "index"
    /\ \E fail \in {"none", "WriteACIInfo", "commit"} :
          LET aciinfo == [BlobKey |-> call[p].key,
                          AppName |-> call[p].im.name,
                          ImportTime |-> Now(db)]
              tx == IF fail = "WriteACIInfo"
                    THEN [err |-> "index error", db |-> db]
                    ELSE [err |-> "", db |-> WriteACIInfo(db, aciinfo)]
              r == Do(db, tx, fail # "commit")
          IN  /\ db' = r.db
              /\ IF r.err # ""
                 THEN /\ Abort(p, "error writing ACI Info")
                      /\ imports' = imports
                 ELSE /\ pc' = [pc EXCEPT ![p] = "idle"]
                      /\ call' = [call EXCEPT ![p] = NoCall]
                      /\ ret' = Return("WriteACI", call[p].arg, call[p].key)
                      /\ imports' = Append(imports, [arg |-> call[p].arg, key |-> call[p].key])
    /\ UNCHANGED <<store, blob, manifest, remotes>>

\* the process of caller p dies between two commit steps of WriteACI
Crash(p) ==
    /\ pc[p] # "idle"
    /\ pc' = [pc EXCEPT ![p] = "idle"]
    /\ call' = [call EXCEPT ![p] = NoCall]
    /\ store' = [store EXCEPT ![p] = "none"]
    /\ ret' = NoRet
    /\ UNCHANGED <<blob, manifest, db, imports, remotes>>

(***************************************************************************)
(* Specifications.                                                         *)
(***************************************************************************)
\* the operations that write the store, the open and the crash of a caller
StepStore(p) ==
    \/ NewStore(p)
    \/ WriteStream(p)
    \/ WriteACI(p)
    \/ ImportBlob(p)
    \/ WriteManifest(p)
    \/ WriteInfo(p)
    \/ Crash(p)

\* the operations that read the blob store, and the key codec
StepRead(p) ==
    \/ ResolveKey(p)
    \/ ReadStream(p)
    \/ GetImageManifest(p)
    \/ HashToKeyCall(p)

\* the operations on the cache of remotes
StepRemote(p) ==
    \/ GetRemote(p)
    \/ WriteRemote(p)

\* the callers write the store concurrently: the steps of their imports and
\* their raw writes interleave, and a caller may crash inside an import
Next == \E p \in Procs : StepStore(p)

Spec == Init /\ [][Next]_vars

\* the callers take turns at the operations of the blob store: a call runs
\* from its entry to its return (or to the crash of its caller) before
\* another caller takes a step
Turn(p) == \A q \in Procs \ {p} : pc[q] = "idle"

NextSeq ==
    \E p \in Procs :
        \/ Turn(p) /\ NewStore(p)
        \/ Turn(p) /\ WriteStream(p)
        \/ Turn(p) /\ WriteACI(p)
        \/ Turn(p) /\ ImportBlob(p)
        \/ Turn(p) /\ WriteManifest(p)
        \/ Turn(p) /\ WriteInfo(p)
        \/ Turn(p) /\ Crash(p)
        \/ Turn(p) /\ ResolveKey(p)
        \/ Turn(p) /\ ReadStream(p)
        \/ Turn(p) /\ GetImageManifest(p)
        \/ Turn(p) /\ HashToKeyCall(p)

SpecSeq == Init /\ [][NextSeq]_vars

\* the callers import images concurrently and nothing else writes the store
NextImport ==
    \E p \in Procs :
        \/ NewStore(p)
        \/ WriteACI(p)
        \/ ImportBlob(p)
        \/ WriteManifest(p)
        \/ WriteInfo(p)
        \/ Crash(p)

SpecImport == Init /\ [][NextImport]_vars

\* the header stage of WriteACI applied to streams of every length
NextHeader == \E p \in Procs : WriteACIHeader(p)

SpecHeader == Init /\ [][NextHeader]_vars

\* the callers open the store and use the cache of remotes
NextRemote == \E p \in Procs : NewStore(p) \/ StepRemote(p)

SpecRemote == Init /\ [][NextRemote]_vars

(***************************************************************************)
(* Properties.                                                             *)
(***************************************************************************)
\* the last step returned r from a successful call of op
Returned(op) == ret.op = op /\ ret.err = ""

\* C1: in every state, crashes and failed steps included, a manifest under
\* a key implies a blob under that key, and an ImageInfo row with a key
\* implies a blob and a manifest under that key.
CommitOrder ==
    /\ \A k \in DOMAIN manifest : k \in DOMAIN blob
    /\ \A k \in RowKeys(db) : k \in DOMAIN blob /\ k \in DOMAIN manifest

\* an import has failed at its manifest write, leaving a blob without
\* manifest, after another import wrote its row
CommitOrderWitness ==
    /\ ret.op = "WriteACI" /\ ret.err = "error importing image manifest"
    /\ RowKeys(db) # {}
    /\ \E k \in DOMAIN blob : k \notin DOMAIN manifest /\ k \notin RowKeys(db)

\* C2: ResolveKey fails with "no keys found" when no stored key starts with
\* the partial key cut to the key length, returns the stored key when exactly
\* one does, and fails with "ambiguous key" when two or more do; a key it
\* returns is stored and starts with the cut partial key.
ResolveKeyCorrect ==
    ret.op = "ResolveKey" =>
        LET norm == IF Len(ret.arg) > lenKey THEN SubSeq(ret.arg, 1, lenKey) ELSE ret.arg
            matches == {k \in DOMAIN blob : IsPrefix(norm, k)}
        IN  /\ matches = {} => ret.err = "no keys found"
            /\ Cardinality(matches) = 1 => ret.err = "" /\ ret.val \in matches
            /\ Cardinality(matches) >= 2 => ret.err = "ambiguous key"
            /\ ret.err = "" => ret.val \in DOMAIN blob /\ IsPrefix(norm, ret.val)

\* a short prefix was resolved to the one key it matches, of several stored
ResolveKeyCorrectWitness ==
    /\ Returned("ResolveKey")
    /\ Len(ret.arg) < lenKey
    /\ Cardinality(DOMAIN blob) >= 2

\* an outcome of ResolveKey without the argument it was called with
Outcome(r) == [val |-> r.val, err |-> r.err, errArg |-> r.errArg]

\* C3: on every store, ResolveKey of a full-length key followed by more
\* characters has the outcomes of ResolveKey of the full-length key alone.
TruncationSafety ==
    /\ \A arg \in PartialKeys :
          Len(arg) > lenKey =>
             {Outcome(r) : r \in ResolveKeyOutcomes(blob, arg)}
                = {Outcome(r) : r \in ResolveKeyOutcomes(blob, SubSeq(arg, 1, lenKey))}
    /\ ret.op = "ResolveKey" /\ Len(ret.arg) > lenKey =>
          Outcome(ret) \in
             {Outcome(r) : r \in ResolveKeyOutcomes(blob, SubSeq(ret.arg, 1, lenKey))}

\* a key longer than a full key was resolved to the full key it starts with
TruncationSafetyWitness ==
    /\ Returned("ResolveKey")
    /\ Len(ret.arg) > lenKey
    /\ ret.val = SubSeq(ret.arg, 1, lenKey)

\* the operations that need a Store
StoreOps == {"ResolveKey", "ReadStream", "WriteStream", "GetImageManifest", "WriteACI",
             "GetRemote", "WriteRemote"}

\* C4: a caller holds a Store only while the stored version is the expected
\* one; on a populated index with another version NewStore fails, no
\* operation of the store is performed and nothing is stored; and the
\* version of a populated index never changes.
SchemaGuard ==
    /\ [](/\ \A p \in Procs : store[p] = "open" => db.populated /\ db.version = dbVersion
          /\ db.populated /\ db.version # dbVersion =>
                /\ ret.op = "NewStore" => ret.err # ""
                /\ ret.op \notin StoreOps
                /\ blob = EmptyStore /\ manifest = EmptyStore
                /\ db.aciinfo = <<>> /\ DOMAIN db.remote = {})
    /\ [][db.populated => db'.populated /\ db'.version = db.version]_vars

\* NewStore has failed on an index of a version greater than expected
SchemaGuardWitness ==
    /\ db.populated /\ db.version > dbVersion
    /\ ret.op = "NewStore" /\ ret.err = "db version greater than expected"

\* C5: any two successful imports whose inputs decompress to the same
\* canonical bytes returned the same key, whatever wrapper each input had.
ImportDeterminism ==
    \A i, j \in 1..Len(imports) :
        Canonical(imports[i].arg).bytes = Canonical(imports[j].arg).bytes
            => imports[i].key = imports[j].key

\* the same canonical bytes were imported from two different wrappers
ImportDeterminismWitness ==
    \E i, j \in 1..Len(imports) :
        /\ imports[i].arg # imports[j].arg
        /\ Canonical(imports[i].arg).bytes = Canonical(imports[j].arg).bytes

\* the canonical bytes of the input of the import the last step returned from
RetBytes == Canonical(ret.arg).bytes

\* C6: when WriteACI returns key K for an input of canonical bytes B holding
\* manifest M, ReadStream(K) yields B and GetImageManifest(K) yields M.
RoundTrip ==
    Returned("WriteACI") =>
        /\ ReadStreamOn(blob, ret.val) = Return("ReadStream", ret.val, RetBytes)
        /\ GetImageManifestOn(manifest, ret.val)
              = Return("GetImageManifest", ret.val, ManifestFromImage(RetBytes).im)

\* a compressed input was imported and its key returned
RoundTripWitness ==
    /\ Returned("WriteACI")
    /\ ret.arg # RetBytes
    /\ ret.val \in DOMAIN blob

\* this return of WriteACI is that of a second import of the same input
Reimported ==
    /\ Returned("WriteACI")
    /\ Len(imports) >= 2
    /\ imports[Len(imports)].arg = ret.arg
    /\ \E i \in 1..(Len(imports) - 1) : imports[i].arg = ret.arg

\* C7: after the second of two imports of the same archive, its key holds the
\* blob and the manifest the first import stored, and has an ImageInfo row.
IdempotentReimport ==
    Reimported =>
        /\ ret.val \in DOMAIN blob /\ blob[ret.val] = RetBytes
        /\ ret.val \in DOMAIN manifest
        /\ manifest[ret.val] = Marshal(ManifestFromImage(RetBytes).im)
        /\ \E i \in 1..Len(db.aciinfo) : db.aciinfo[i].BlobKey = ret.val

\* the same input was imported twice
IdempotentReimportWitness == Reimported

\* C8 as stated: the key of an import is the tag followed by the first 32
\* hex characters of the digest of the canonical bytes.
KeyOfFirst32Hex ==
    Returned("WriteACI") =>
        ret.val = hashPrefix \o SubSeq(Hex(Sum("sha512", RetBytes)), 1, 32)

\* C8: the key of an import is the tag followed by the first 64 hex
\* characters (the first 32 bytes) of the digest of the canonical bytes.
KeyOfFirst64Hex ==
    Returned("WriteACI") =>
        ret.val = hashPrefix \o SubSeq(Hex(Sum("sha512", RetBytes)), 1, 64)

\* a gzip-compressed image of the application example-app was imported
KeyOfFirst64HexWitness ==
    /\ Returned("WriteACI")
    /\ IsPrefix(gzipHeader, ret.arg)
    /\ ManifestFromImage(RetBytes).im.name = "example-app"

\* the digest behind the key the last step returned
RetDigest ==
    IF ret.op = "HashToKey" THEN Sum(ret.arg.alg, ret.arg.data)
    ELSE Sum("sha512", RetBytes)

LowerHex == {HexDigits[i] : i \in 1..Len(HexDigits)}

\* C9: a key returned by HashToKey or WriteACI has the length lenKey and is
\* the tag followed by lenHashKey lowercase hex characters, the first half
\* of the hex rendering of the digest; HashToKey yields a key exactly when
\* the digest has 512 bits, and panics otherwise.
KeyFormat ==
    /\ Returned("HashToKey") \/ Returned("WriteACI") =>
          /\ Len(ret.val) = lenKey
          /\ SubSeq(ret.val, 1, Len(hashPrefix)) = hashPrefix
          /\ Len(ret.val) - Len(hashPrefix) = lenHashKey
          /\ \A i \in (Len(hashPrefix) + 1)..Len(ret.val) : ret.val[i] \in LowerHex
          /\ SubSeq(ret.val, Len(hashPrefix) + 1, Len(ret.val))
                = SubSeq(Hex(RetDigest), 1, Len(Hex(RetDigest)) \div 2)
    /\ ret.op = "HashToKey" => (ret.err = "" <=> 8 * Len(RetDigest) = 512)

\* HashToKey has panicked on a digest that has not 512 bits
KeyFormatWitness ==
    /\ ret.op = "HashToKey" /\ ret.err # ""
    /\ 8 * Len(RetDigest) # 512

\* the key derived from the digest of the bytes b
DerivedKey(b) == HashToKey("sha512", b).key

\* C10 as stated: every blob stored under a key is content whose
\* digest-derived key is that key.
ContentAddressed == \A k \in DOMAIN blob : DerivedKey(blob[k]) = k

\* C10: no step removes a blob, and every step that stores a blob under a
\* key, other than a WriteStream to that key, stores content whose
\* digest-derived key is that key.
ContentAddressedImports ==
    [][/\ DOMAIN blob \subseteq DOMAIN blob'
       /\ \A k \in DOMAIN blob' :
             (k \notin DOMAIN blob \/ blob'[k] # blob[k]) =>
                \/ ret'.op = "WriteStream" /\ ret'.err = "" /\ ret'.arg = k
                \/ DerivedKey(blob'[k]) = k]_vars

\* an import has stored a blob under the key of its content, beside a blob
\* that a raw write stored under a key that is not that of its content
ContentAddressedImportsWitness ==
    /\ \E p \in Procs : pc[p] = "manifest" /\ call[p].key \in DOMAIN blob
                        /\ blob[call[p].key] = call[p].fh
    /\ \E k \in DOMAIN blob : DerivedKey(blob[k]) # k

\* the last Remote written for the URL u, in a sequence of one element, or
\* the empty sequence when none was written
LastWritten(u) ==
    LET idx == {i \in 1..Len(remotes) : remotes[i].ACIURL = u}
    IN  IF idx = {} THEN <<>>
        ELSE <<remotes[CHOOSE i \in idx : \A j \in idx : j <= i]>>

\* C11: the index holds for each URL the Remote last written for it, and
\* none for a URL never written, also after a WriteRemote that failed;
\* GetRemote returns found with that Remote, or not found.
RemoteCache ==
    /\ \A u \in URLs :
          IF LastWritten(u) = <<>> THEN u \notin DOMAIN db.remote
          ELSE u \in DOMAIN db.remote /\ db.remote[u] = LastWritten(u)[1]
    /\ Returned("GetRemote") =>
          IF LastWritten(ret.arg) = <<>> THEN ~ret.val.found
          ELSE ret.val.found /\ ret.val.remote = LastWritten(ret.arg)[1]

\* GetRemote has returned the second of two different Remotes written for
\* its URL, while the other URL was never written
RemoteCacheWitness ==
    /\ Returned("GetRemote") /\ ret.val.found
    /\ \E i, j \in 1..Len(remotes) :
          /\ i < j
          /\ remotes[i].ACIURL = ret.arg /\ remotes[j].ACIURL = ret.arg
          /\ remotes[i].BlobKey # remotes[j].BlobKey
          /\ ret.val.remote = remotes[j]
    /\ \E u \in URLs : LastWritten(u) = <<>>

\* the key, the content and the manifest a writer of stream s computes
Complete(s) == Prepared[s]["none"]

\* the streams a writer imports without an error before the commit steps
Importable == {s \in Streams : Complete(s).err = ""}

\* C12: imports running concurrently on the same stream hold the same key;
\* a blob and a manifest stored under a key are the whole content and the
\* whole manifest of a writer that computes that key, never a part or a mix;
\* once imports of a stream have returned, its blob and manifest are stored.
ConcurrentImports ==
    /\ \A p, q \in InFlight :
          call[p].arg = call[q].arg => call[p].key = call[q].key
    /\ \A k \in DOMAIN blob :
          \E s \in Importable : Complete(s).key = k /\ blob[k] = Complete(s).fh
    /\ \A k \in DOMAIN manifest :
          \E s \in Importable :
             Complete(s).key = k /\ manifest[k] = Marshal(Complete(s).im)
    /\ \A i \in 1..Len(imports) :
          LET w == Complete(imports[i].arg)
          IN  /\ imports[i].key = w.key
              /\ w.key \in DOMAIN blob /\ blob[w.key] = w.fh
              /\ w.key \in DOMAIN manifest /\ manifest[w.key] = Marshal(w.im)

\* two imports of the same stream whose commit steps interleaved: the first
\* to enter has returned its key while the other, which had stored the blob
\* and the manifest before, is still at its index step
ConcurrentImportsWitness ==
    /\ Returned("WriteACI")
    /\ \E q \in InFlight :
          /\ pc[q] = "index"
          /\ call[q].arg = ret.arg
          /\ call[q].key = ret.val
    /\ ret.val \in DOMAIN blob /\ ret.val \in DOMAIN manifest

\* the errors of the stages of WriteACI that come before the import of the blob
EarlyErrors == {"error reading image header", "error detecting image type",
                "error decompressing image", "error creating image",
                "error copying image", "error extracting image manifest",
                "error closing image"}

\* C13: a failure at a stage before the import of the blob gives one of the
\* early errors, and a step in which WriteACI returns an early error returns
\* no key and leaves the blobs, the manifests and the index as they were.
NothingStoredOnEarlyFailure ==
    /\ [](\A stream \in Streams, fail \in PrepareFails \ {"none"} :
             Prepared[stream][fail].err \in EarlyErrors)
    /\ [][(ret'.op = "WriteACI" /\ ret'.err \in EarlyErrors) =>
             /\ ret'.val = <<>>
             /\ blob' = blob
             /\ manifest' = manifest
             /\ db' = db]_vars

\* WriteACI has failed to extract a manifest on a store that holds an image
\* imported before
NothingStoredOnEarlyFailureWitness ==
    /\ ret.op = "WriteACI"
    /\ ret.err = "error extracting image manifest"
    /\ ret.val = <<>>
    /\ Len(imports) > 0
    /\ Len(db.aciinfo) > 0
    /\ DOMAIN blob # {} /\ DOMAIN manifest # {}

\* the errors of the manifest write and of the index transaction of WriteACI
LateErrors == {"error marshalling image manifest", "error importing image manifest",
               "error writing ACI Info"}

\* C14 as stated: after a failure of the manifest write or of the index
\* transaction, no key is returned, the error is not an early one, and the
\* blob of the image is stored with no manifest and no row under its key.
PartialCommitOrphan ==
    (ret.op = "WriteACI" /\ ret.err \in LateErrors) =>
        LET k == Complete(ret.arg).key
        IN  /\ ret.val = <<>>
            /\ ret.err \notin EarlyErrors
            /\ k \in DOMAIN blob
            /\ k \notin DOMAIN manifest
            /\ k \notin RowKeys(db)

\* C14, amended: a call of WriteACI that fails at its manifest step or at its
\* index step returns no key and the error of that step, which is not an
\* early error; the blob it imported stays stored, and the call has added no
\* row; failing at the manifest step it has written no manifest, failing at
\* the index step it leaves the manifest it wrote under the key.
PartialCommit ==
    [][\A p \in Procs :
          (pc[p] \in {"manifest", "index"} /\ pc'[p] = "idle" /\ ret'.op = "WriteACI"
              /\ ret'.err # "") =>
             LET k == call[p].key
             IN  /\ ret'.val = <<>>
                 /\ ret'.err \in LateErrors
                 /\ ret'.err \notin EarlyErrors \cup {"error importing image"}
                 /\ ret'.err = "error writing ACI Info" <=> pc[p] = "index"
                 /\ blob' = blob
                 /\ k \in DOMAIN blob /\ blob[k] = call[p].fh
                 /\ db' = db
                 /\ manifest' = manifest
                 /\ pc[p] = "index" =>
                       k \in DOMAIN manifest /\ manifest[k] = Marshal(call[p].im)]_vars

\* the index transaction of the first import of an image has failed: the
\* blob and the manifest of the image are stored and the index has no row
PartialCommitWitness ==
    /\ ret.op = "WriteACI"
    /\ ret.err = "error writing ACI Info"
    /\ LET k == Complete(ret.arg).key
       IN  /\ k \in DOMAIN blob /\ blob[k] = Complete(ret.arg).fh
           /\ k \in DOMAIN manifest
           /\ k \notin RowKeys(db)

\* C15: the rows of the index are those of the imports that returned a key,
\* one each; the step in which WriteACI returns the key K appends, with the
\* blob and the manifest already stored under K, the one row of K whose
\* AppName is the name in that manifest; a step in which WriteACI returns an
\* error of a stage before the index transaction leaves the rows as they are.
OneRowPerImport ==
    /\ [](/\ Len(db.aciinfo) = Len(imports)
          /\ \A i \in 1..Len(imports) : db.aciinfo[i].BlobKey = imports[i].key)
    /\ [][/\ (\E p \in Procs : pc[p] = "index" /\ pc'[p] = "idle" /\ ret'.err = ""
                                   /\ ret'.op = "WriteACI") =>
                LET K == ret'.val
                IN  /\ K \in DOMAIN blob /\ K \in DOMAIN manifest
                    /\ blob' = blob /\ manifest' = manifest
                    /\ Len(db'.aciinfo) = Len(db.aciinfo) + 1
                    /\ SubSeq(db'.aciinfo, 1, Len(db.aciinfo)) = db.aciinfo
                    /\ db'.aciinfo[Len(db'.aciinfo)].BlobKey = K
                    /\ Unmarshal(manifest[K]).ok
                    /\ db'.aciinfo[Len(db'.aciinfo)].AppName = Unmarshal(manifest[K]).im.name
          /\ (ret'.op = "WriteACI" /\ ret'.err \in (EarlyErrors \cup LateErrors
                    \cup {"error importing image"}) \ {"error writing ACI Info"}) =>
                db'.aciinfo = db.aciinfo]_vars

\* the second import has returned its key: the index has two rows, the last
\* with that key and the name in the manifest stored under it
OneRowPerImportWitness ==
    /\ Returned("WriteACI")
    /\ Len(imports) = 2
    /\ Len(db.aciinfo) = 2
    /\ db.aciinfo[2].BlobKey = ret.val
    /\ ret.val \in DOMAIN manifest
    /\ db.aciinfo[2].AppName = Unmarshal(manifest[ret.val]).im.name

\* C16: on every store reached, for every partial key and every order in
\* which the scan sends the matching keys, ResolveKey receives at most two
\* keys; with two matches or more it closes cancel on receiving the second
\* and leaves the loop there; with none or one it receives all of them and
\* does not close cancel; cancel is closed at most once.
EarlyCancel ==
    \A arg \in PartialKeys :
       \A ch \in Orders(KeysPrefix(blob, Truncate(arg))) :
          LET l == ScanLoop(ch, <<>>, 0)
          IN  /\ l.keyCount <= 2
              /\ l.closes <= 1
              /\ l.cancel <=> l.closes = 1
              /\ Len(ch) >= 2 => l.cancel /\ l.keyCount = 2 /\ l.k = ch[2]
              /\ Len(ch) <= 1 => ~l.cancel /\ l.keyCount = Len(ch)

\* ResolveKey has found its partial key ambiguous on a store where three
\* keys match it
EarlyCancelWitness ==
    /\ ret.op = "ResolveKey"
    /\ ret.err = "ambiguous key"
    /\ Cardinality(KeysPrefix(blob, Truncate(ret.arg))) >= 3

\* C17: whenever ResolveKey fails because two stored keys or more match, its
\* error carries the partial key as the caller passed it, also when that is
\* longer than a key.
AmbiguousKeyCarriesArg ==
    (ret.op = "ResolveKey" /\ ret.err = "ambiguous key") => ret.errArg = ret.arg

\* C18: for a stream of any length the bytes handed to DetectFileType are its
\* first min(512, length) bytes, and the peek meets the end of the stream
\* exactly when the stream is shorter than 512 bytes; unless reading fails,
\* that is no error, and the decompressing reader is given the whole stream
\* from its first byte, so that the content of a tar stream, as copied and
\* hashed, is the stream itself.
HeaderPeek ==
    ret.op = "WriteACIHeader" =>
        LET stream == ret.arg
            h == ret.val
        IN  /\ Len(h.hd) = Min(PeekSize, Len(stream))
            /\ \A i \in 1..Len(h.hd) : h.hd[i] = stream[i]
            /\ h.eof <=> Len(stream) < PeekSize
            /\ h.received = stream
            /\ h.fail # "peek" => h.err # "error reading image header"
            /\ (h.fail = "none" /\ h.typ \in {"gzip", "bzip2", "tar"}) => h.err = ""
            /\ (h.err = "" /\ h.typ = "tar") =>
                  /\ h.dr.bytes = stream
                  /\ TeeReader(stream, h.dr).read = stream
                  /\ TeeReader(stream, h.dr).hashed = stream

\* the header of a tar stream longer than the peek has been taken: 512 bytes
\* went to the detection and all 600 to the decompressing reader
HeaderPeekWitness ==
    /\ ret.op = "WriteACIHeader"
    /\ Len(ret.arg) > PeekSize
    /\ Len(ret.val.hd) = PeekSize
    /\ ~ret.val.eof
    /\ ret.val.typ = "tar"
    /\ ret.val.err = ""
    /\ Len(ret.val.received) = Len(ret.arg)

\* the header of a gzip stream shorter than the peek has been taken: the peek
\* met the end of the stream and the stage returned no error
HeaderPeekShortWitness ==
    /\ ret.op = "WriteACIHeader"
    /\ Len(ret.arg) \in 1..(PeekSize - 1)
    /\ ret.val.eof
    /\ ret.val.typ = "gzip"
    /\ ret.val.err = ""

\* the index was populated by the code of the expected version
Current(d) == dbIsPopulated(d) /\ getDBVersion(d) = dbVersion

\* the errors of the index that are not verdicts of the version check
IndexErrors == {"index error", "commit failed"}

\* C19: on an index never populated, and on one populated by this version of
\* the code, NewStore succeeds unless the index fails; its transaction
\* creates the schema with the expected version on the first, and leaves the
\* second, rows and version, as it is; a NewStore that fails leaves the index
\* as it was; and no operation of the store takes a populated index of the
\* expected version out of that condition.
RepeatableOpen ==
    /\ []((~dbIsPopulated(db) \/ Current(db)) =>
             LET r == Do(db, NewStoreFn(db, "none"), TRUE)
             IN  /\ r.err = ""
                 /\ Current(r.db)
                 /\ dbIsPopulated(db) => r.db = db)
    /\ [][/\ Current(db) => Current(db')
          /\ ret'.op = "NewStore" =>
                /\ ret'.err # "" => db' = db
                /\ (ret'.err = "" /\ ~dbIsPopulated(db)) => db' = CreatedDB
                /\ (ret'.err = "" /\ dbIsPopulated(db)) => db' = db /\ Current(db)
                /\ ret'.err = "" => Current(db')
                /\ (~dbIsPopulated(db) \/ Current(db)) => ret'.err \in IndexErrors \cup {""}]_vars

\* the store has been opened again after an import: the open succeeded and
\* the index still holds the row of the import
RepeatableOpenWitness ==
    /\ Returned("NewStore")
    /\ Current(db)
    /\ Len(imports) > 0
    /\ Len(db.aciinfo) = Len(imports)
    /\ \E p \in Procs : store[p] = "open"

====
